---------------------------- MODULE Spec2Model ----------------------------
(***************************************************************************)
(* A model of sidecar/src/types/sse_events.rs: the eight event payload     *)
(* types of the sidecar (ApiVersion, BlockAdded, DeployAccepted,           *)
(* DeployProcessed, DeployExpired, Fault, FinalitySignature, Step), their  *)
(* constructors (derive_new's `new` and the test-only `random` family),    *)
(* their read-only accessors, their derived Clone, and their derived       *)
(* serde encoding in a human-readable format (JSON).  Of the derived       *)
(* decoders only ApiVersion's is modelled: the others hand every field to  *)
(* the decoders of the node's types, which are not part of this file.      *)
(*                                                                         *)
(* Values of the node's types (hashes, keys, blocks, deploys) are modelled *)
(* by what the file reads from them.  A hash is a sequence of DigestLength *)
(* bytes; a hexadecimal string is a sequence of one-character strings.     *)
(***************************************************************************)
EXTENDS Integers, Sequences, FiniteSets, TLC

(***************************************************************************)
(* Bounds of the model.                                                    *)
(***************************************************************************)
\* The states of the seeded test generator (TestRng) the model tells apart.
RngStates == 3
\* The subscribers that share one DeployAccepted event.
MaxSubscribers == 2
\* The longest subscription stream the model follows.
MaxStream == 3

\* Digest::LENGTH: the number of bytes of a block hash or deploy hash.
DigestLength == 32

(***************************************************************************)
(* Bytes and hexadecimal text (hex::encode, base16).                       *)
(***************************************************************************)
HexDigits == <<"0", "1", "2", "3", "4", "5", "6", "7",
               "8", "9", "a", "b", "c", "d", "e", "f">>

UpperHexDigits == <<"0", "1", "2", "3", "4", "5", "6", "7",
                    "8", "9", "A", "B", "C", "D", "E", "F">>

\* hex::encode: two lowercase digits per byte, high nibble first, in order.
HexEncode(bytes) ==
    [i \in 1..(2 * Len(bytes)) |->
        LET b == bytes[(i + 1) \div 2]
        IN  IF i % 2 = 1 THEN HexDigits[(b \div 16) + 1]
                         ELSE HexDigits[(b % 16) + 1]]

\* The value of one hexadecimal digit, either case; -1 for any other character.
HexVal(c) ==
    IF \E k \in 1..16 : HexDigits[k] = c
    THEN (CHOOSE k \in 1..16 : HexDigits[k] = c) - 1
    ELSE IF \E k \in 1..16 : UpperHexDigits[k] = c
         THEN (CHOOSE k \in 1..16 : UpperHexDigits[k] = c) - 1
         ELSE -1

\* Whether hex decoding accepts the text: an even number of hex digits.
HexValid(chars) ==
    /\ Len(chars) % 2 = 0
    /\ \A i \in 1..Len(chars) : HexVal(chars[i]) >= 0

\* Hex decoding of an accepted text: one byte per pair of digits.
HexDecode(chars) ==
    [i \in 1..(Len(chars) \div 2) |->
        16 * HexVal(chars[2 * i - 1]) + HexVal(chars[2 * i])]

(***************************************************************************)
(* Decimal text, as Display of an unsigned integer writes it.              *)
(***************************************************************************)
DecDigits == <<"0", "1", "2", "3", "4", "5", "6", "7", "8", "9">>

RECURSIVE DecString(_)
DecString(n) ==
    IF n < 10 THEN <<DecDigits[n + 1]>>
    ELSE Append(DecString(n \div 10), DecDigits[(n % 10) + 1])

DecVal(c) ==
    IF \E k \in 1..10 : DecDigits[k] = c
    THEN (CHOOSE k \in 1..10 : DecDigits[k] = c) - 1
    ELSE -1

\* u32::from_str takes one "+" before the digits and no other sign: the text
\* without that sign.
Unsigned(chars) ==
    IF Len(chars) > 0 /\ chars[1] = "+" THEN Tail(chars) ELSE chars

\* Digits without their leading zeros, the last digit kept.
RECURSIVE StripZeros(_)
StripZeros(digits) ==
    IF Len(digits) > 1 /\ digits[1] = "0" THEN StripZeros(Tail(digits)) ELSE digits

\* u32::MAX, 4294967295, as text.
U32MaxText == <<"4", "2", "9", "4", "9", "6", "7", "2", "9", "5">>

\* Whether the number the digits write is at most u32::MAX.
FitsU32(digits) ==
    LET d == StripZeros(digits)
    IN  \/ Len(d) < Len(U32MaxText)
        \/ /\ Len(d) = Len(U32MaxText)
           /\ \/ d = U32MaxText
              \/ \E i \in 1..Len(d) :
                     /\ \A j \in 1..(i - 1) : d[j] = U32MaxText[j]
                     /\ DecVal(d[i]) < DecVal(U32MaxText[i])

\* Whether u32::from_str accepts the text: an optional "+", then one or more
\* decimal digits of a number that fits 32 bits.
DecValid(chars) ==
    LET d == Unsigned(chars)
    IN  /\ Len(d) > 0
        /\ \A i \in 1..Len(d) : DecVal(d[i]) >= 0
        /\ FitsU32(d)

RECURSIVE DecParseDigits(_)
DecParseDigits(digits) ==
    IF Len(digits) = 0 THEN 0
    ELSE 10 * DecParseDigits(SubSeq(digits, 1, Len(digits) - 1))
             + DecVal(digits[Len(digits)])

\* The number an accepted text writes.
DecParse(chars) == DecParseDigits(Unsigned(chars))


(***************************************************************************)
(* Values of the node's types, as far as this file reads them.             *)
(***************************************************************************)
\* Four bytes of a number, least significant first.
LE4(n) == <<n % 256, (n \div 256) % 256, (n \div 65536) % 256, (n \div 16777216) % 256>>

\* A sequence of n copies of byte b.
Fill(n, b) == [i \in 1..n |-> b]

\* A public key: the algorithm tag (0 System, 1 Ed25519, 2 Secp256k1) and the
\* raw key bytes (none, 32 or 33 of them).
SystemKey == [tag |-> 0, raw |-> <<>>]
Ed25519Key(n) == [tag |-> 1, raw |-> [i \in 1..32 |-> (n * 16 + i * 29) % 256]]
Secp256k1Key(n) == [tag |-> 2, raw |-> [i \in 1..33 |-> (n * 16 + i * 43 + 171) % 256]]

\* The number of raw bytes a key of the given algorithm has; -1 for an unknown tag.
KeyLength(tag) ==
    CASE tag = 0 -> 0
      [] tag = 1 -> 32
      [] tag = 2 -> 33
      [] OTHER -> -1

\* AsymmetricType::to_hex: lowercase hex of the tag byte followed by the raw bytes.
PublicKey_to_hex(pk) == HexEncode(<<pk.tag>> \o pk.raw)

\* PublicKey::random: an Ed25519 or a Secp256k1 key, by the generator's draw.
PublicKey_random(r) == IF r % 2 = 0 THEN Ed25519Key(r) ELSE Secp256k1Key(r)

\* The identifier of a block: the digest of its header.  The digest is modelled
\* by an injective layout of the header's content padded to DigestLength bytes.
BlockHeader_hash(header) ==
    LE4(header.height) \o LE4(header.era_id) \o LE4(header.body_hash)
        \o Fill(DigestLength - 12, 177)

\* The identifier of a deploy: the digest of its header.
DeployHeader_hash(header) ==
    <<header.account.tag>> \o LE4(header.timestamp) \o LE4(header.ttl)
        \o <<Len(header.dependencies), header.body_hash>>
        \o Fill(DigestLength - 11, 222)

\* BlockHash::random: a digest drawn from the generator.
BlockHash_random(r) == [i \in 1..DigestLength |-> (r * 53 + i * 19 + 7) % 256]

\* DeployHash values a dependency list is drawn from.
DependencyHash(n) == [i \in 1..DigestLength |-> (n * 101 + i * 3) % 256]

\* The generator: its next state after one draw.
RngNext(r) == (r + 1) % RngStates

\* Block::random: a block whose hash is the digest of its header.
Block_random(r) ==
    LET header == [height |-> 10 + r, era_id |-> 1 + r, body_hash |-> 200 + r]
    IN  [hash |-> BlockHeader_hash(header), header |-> header, body |-> 300 + r]

\* Block::set_height(height, era_id) stores the height in the block's header.
\* Its body belongs to the node and is not part of this file: whether it also
\* stores the era it is handed, and whether it recomputes the block's hash from
\* the changed header, is left open, and `lib` names the outcome.
SetHeightOutcomes == [era : BOOLEAN, rehash : BOOLEAN]

Block_set_height(block, height, era_id, lib) ==
    LET header == [block.header EXCEPT
                      !.height = height,
                      !.era_id = IF lib.era THEN era_id ELSE @]
    IN  [block EXCEPT
            !.header = header,
            !.hash = IF lib.rehash THEN BlockHeader_hash(header) ELSE @]

\* JsonBlock::new(block, None): the block's hash, header and body, no proofs.
JsonBlock_new(block) ==
    [hash |-> block.hash, header |-> block.header, body |-> block.body,
     proofs |-> <<>>]

\* The time to live of a random deploy, in milliseconds: an hour, more than
\* one day, more than two days.
DeployTtl(r) ==
    CASE r % 3 = 0 -> 3600000
      [] r % 3 = 1 -> 90061001
      [] OTHER -> 183845006

\* Deploy::random: a deploy whose id is the digest of its header.  The second
\* generator state yields a dependency list with a repeated entry.
Deploy_random(r) ==
    LET deps == CASE r % 3 = 0 -> <<>>
                  [] r % 3 = 1 -> <<DependencyHash(2), DependencyHash(1)>>
                  [] OTHER -> <<DependencyHash(1), DependencyHash(1)>>
        header == [account |-> PublicKey_random(r),
                   timestamp |-> 200000 + 1001 * r,
                   ttl |-> DeployTtl(r),
                   dependencies |-> deps,
                   body_hash |-> 60 + r]
    IN  [hash |-> DeployHeader_hash(header), header |-> header,
         payment |-> 400 + r, session |-> 500 + r, approvals |-> <<>>]

\* The formatted text of a key an operation or a transform is about.
KeyText(n) == <<"h", "a", "s", "h", "-">> \o HexEncode(Fill(DigestLength, 16 * n + 3))

\* A TransferAddr: DigestLength bytes.
TransferAddr(n) == [i \in 1..DigestLength |-> (n * 37 + i * 11) % 256]

\* An ExecutionEffect: its operations (a key text and the kind of access) and
\* its transforms (a key text and the transform applied).
ExecutionEffect_random(r) ==
    CASE r % 3 = 0 -> [operations |-> <<>>, transforms |-> <<>>]
      [] r % 3 = 1 -> [operations |-> <<[key |-> KeyText(r), kind |-> "Read"]>>,
                       transforms |-> <<[key |-> KeyText(r), transform |-> "Identity"]>>]
      [] OTHER -> [operations |-> <<[key |-> KeyText(r), kind |-> "Write"],
                                    [key |-> KeyText(r + 1), kind |-> "Read"]>>,
                   transforms |-> <<[key |-> KeyText(r), transform |-> "WriteContractWasm"]>>]

\* rng.gen::<ExecutionResult>(): a Success or a Failure, each with an effect,
\* the transfers made and a cost; a Failure has an error message as well.
ExecutionResult_random(r) ==
    IF r % 2 = 0
    THEN [variant |-> "Success", effect |-> ExecutionEffect_random(r),
          transfers |-> <<TransferAddr(r), TransferAddr(r + 1)>>,
          cost |-> 123 + r, error_message |-> ""]
    ELSE [variant |-> "Failure", effect |-> ExecutionEffect_random(r),
          transfers |-> <<>>,
          cost |-> 45 + r, error_message |-> "error"]

\* Timestamp::random.
Timestamp_random(r) == 200000 + 999 * r

(***************************************************************************)
(* The event types and their constructors.  An event is a record whose     *)
(* `type` names its Rust struct; the other fields are the struct's fields. *)
(* A `random` constructor takes the generator's state r and gives the      *)
(* event and the generator's state after its draws.                        *)
(***************************************************************************)
NoEvent == [type |-> "None"]

\* rng.gen::<u64>() as an era id.
EraGen(r) == 5 + r

\* Option<DeployHash>: None, or Some(hash).
None == [some |-> FALSE]
Some(h) == [some |-> TRUE, hash |-> h]

\* Option::unwrap_or.
UnwrapOr(opt, default) == IF opt.some THEN opt.hash ELSE default

ApiVersion_new(version) == [type |-> "ApiVersion", version |-> version]

BlockAdded_new(block_hash, block) ==
    [type |-> "BlockAdded", block_hash |-> block_hash, block |-> block]

BlockAdded_random(r) ==
    LET block == Block_random(r)
    IN  [event |-> BlockAdded_new(block.hash, JsonBlock_new(block)),
         rng |-> RngNext(r)]

\* A plausible slip: the hash is read before the height is overridden.
BlockAdded_random_with_height_StaleHash(r, height, lib) ==
    LET first == Block_random(r)
        block == Block_set_height(first, height, 0, lib)
    IN  [event |-> BlockAdded_new(first.hash, JsonBlock_new(block)),
         rng |-> RngNext(r)]

\* A plausible slip: the block is wrapped without the height override.
BlockAdded_random_with_height_NoOverride(r, height, lib) ==
    LET block == Block_random(r)
    IN  [event |-> BlockAdded_new(block.hash, JsonBlock_new(block)),
         rng |-> RngNext(r)]

\* EraId::default() is era 0.
BlockAdded_random_with_height(r, height, lib) ==
    LET block == Block_set_height(Block_random(r), height, 0, lib)
    IN  [event |-> BlockAdded_new(block.hash, JsonBlock_new(block)),
         rng |-> RngNext(r)]

\* Digest::from_hex(hash).expect(..): panics unless the text is the hex of
\* DigestLength bytes.
Digest_from_hex_ok(text) == HexValid(text) /\ Len(text) = 2 * DigestLength

BlockAdded_random_with_hash(r, text) ==
    LET block == Block_random(r)
    IN  IF Digest_from_hex_ok(text)
        THEN [panic |-> FALSE,
              event |-> BlockAdded_new(HexDecode(text), JsonBlock_new(block)),
              rng |-> RngNext(r)]
        ELSE [panic |-> TRUE, event |-> NoEvent, rng |-> RngNext(r)]

DeployAccepted_new(deploy) == [type |-> "DeployAccepted", deploy |-> deploy]

DeployAccepted_random(r) ==
    [event |-> DeployAccepted_new(Deploy_random(r)), rng |-> RngNext(r)]

DeployProcessed_new(deploy_hash, account, timestamp, ttl, dependencies, block_hash, execution_result) ==
    [type |-> "DeployProcessed", deploy_hash |-> deploy_hash,
     account |-> account, timestamp |-> timestamp, ttl |-> ttl,
     dependencies |-> dependencies, block_hash |-> block_hash,
     execution_result |-> execution_result]

\* A plausible slip: the requested hash is ignored.
DeployProcessed_random_IgnoresHash(r, with_deploy_hash) ==
    LET deploy == Deploy_random(r)
        r1 == RngNext(r)
        r2 == RngNext(r1)
    IN  [event |-> DeployProcessed_new(deploy.hash,
                      deploy.header.account, deploy.header.timestamp,
                      deploy.header.ttl, deploy.header.dependencies,
                      BlockHash_random(r1), ExecutionResult_random(r2)),
         rng |-> RngNext(r2)]

DeployProcessed_random(r, with_deploy_hash) ==
    LET deploy == Deploy_random(r)
        r1 == RngNext(r)
        r2 == RngNext(r1)
    IN  [event |-> DeployProcessed_new(UnwrapOr(with_deploy_hash, deploy.hash),
                      deploy.header.account, deploy.header.timestamp,
                      deploy.header.ttl, deploy.header.dependencies,
                      BlockHash_random(r1), ExecutionResult_random(r2)),
         rng |-> RngNext(r2)]

DeployExpired_new(deploy_hash) ==
    [type |-> "DeployExpired", deploy_hash |-> deploy_hash]

DeployExpired_random(r, with_deploy_hash) ==
    [event |-> DeployExpired_new(UnwrapOr(with_deploy_hash, Deploy_random(r).hash)),
     rng |-> RngNext(r)]

Fault_new(era_id, public_key, timestamp) ==
    [type |-> "Fault", era_id |-> era_id, public_key |-> public_key,
     timestamp |-> timestamp]

Fault_random(r) ==
    LET r1 == RngNext(r)
        r2 == RngNext(r1)
    IN  [event |-> Fault_new(EraGen(r), PublicKey_random(r1), Timestamp_random(r2)),
         rng |-> RngNext(r2)]

\* The signature of a key over a block hash and an era: the key's tag byte and
\* 64 bytes.
Signature(block_hash, era_id, key) ==
    <<key.tag>> \o [i \in 1..64 |-> (block_hash[1] + era_id + key.raw[1] + i) % 256]

\* FinalitySignature::random_for_block: a signature by a freshly generated
\* Ed25519 key pair, which is not drawn from the test generator.
FinSig_random_for_block(block_hash, era_id, key) ==
    [block_hash |-> block_hash, era_id |-> era_id,
     signature |-> Signature(block_hash, era_id, key), public_key |-> key]

FinalitySignature_new(sig) == [type |-> "FinalitySignature", sig |-> sig]

FinalitySignature_random(r, key) ==
    LET r1 == RngNext(r)
    IN  [event |-> FinalitySignature_new(
                      FinSig_random_for_block(BlockHash_random(r), EraGen(r1), key)),
         rng |-> RngNext(r1)]

Step_new(era_id, execution_effect) ==
    [type |-> "Step", era_id |-> era_id, execution_effect |-> execution_effect]

Step_random(r) ==
    LET r1 == RngNext(r)
    IN  [event |-> Step_new(EraGen(r1), ExecutionResult_random(r).effect),
         rng |-> RngNext(r1)]

(***************************************************************************)
(* The accessors.  Each takes the event by shared reference (&self) and is *)
(* modelled by the pair of the receiver after the call and the value       *)
(* returned.                                                               *)
(***************************************************************************)
BlockAdded_hex_encoded_hash(self) ==
    [self |-> self, ret |-> HexEncode(self.block_hash)]

BlockAdded_get_height(self) ==
    [self |-> self, ret |-> self.block.header.height]

\* Test-only: the id of the wrapped deploy.
DeployAccepted_deploy_hash(self) ==
    [self |-> self, ret |-> self.deploy.hash]

DeployAccepted_hex_encoded_hash(self) ==
    [self |-> self, ret |-> HexEncode(self.deploy.hash)]

DeployProcessed_hex_encoded_hash(self) ==
    [self |-> self, ret |-> HexEncode(self.deploy_hash)]

\* A plausible slip: the digits are written in upper case.
DeployExpired_hex_encoded_hash_Upper(self) ==
    [self |-> self,
     ret |-> [i \in 1..(2 * Len(self.deploy_hash)) |->
                LET b == self.deploy_hash[(i + 1) \div 2]
                IN  IF i % 2 = 1 THEN UpperHexDigits[(b \div 16) + 1]
                                 ELSE UpperHexDigits[(b % 16) + 1]]]

DeployExpired_hex_encoded_hash(self) ==
    [self |-> self, ret |-> HexEncode(self.deploy_hash)]

\* Display for Fault: the pretty Debug rendering, which names the struct and
\* every field with its value.
Fault_fmt(self) ==
    [self |-> self,
     ret |-> [name |-> "Fault", era_id |-> self.era_id,
              public_key |-> self.public_key, timestamp |-> self.timestamp]]

\* A plausible slip: the signature is moved out of the event instead of out of
\* a clone of it, leaving a default value behind.
FinalitySignature_inner_Takes(self) ==
    [self |-> [self EXCEPT !.sig.block_hash = Fill(DigestLength, 0)],
     ret |-> self.sig]

\* *self.0.clone(): a copy of the wrapped signature.
FinalitySignature_inner(self) ==
    [self |-> self, ret |-> self.sig]

FinalitySignature_hex_encoded_block_hash(self) ==
    [self |-> self, ret |-> HexEncode(self.sig.block_hash)]

FinalitySignature_hex_encoded_public_key(self) ==
    [self |-> self, ret |-> PublicKey_to_hex(self.sig.public_key)]

\* The derived Clone of an event: a field-by-field copy.
Event_clone(self) ==
    [self |-> self, ret |-> self]

(***************************************************************************)
(* The derived serde encoding, human-readable (JSON).  A wire record is    *)
(* [json |-> "object", fields |-> <record>] or [json |-> "string", text].  *)
(* Text is a sequence of one-character strings.  Hashes, keys and          *)
(* signatures are written as hex text, a timestamp as RFC 3339 text with   *)
(* milliseconds, a duration as the text of its units, a U512 as decimal    *)
(* text, an era id and a height as numbers.  Block bodies and deploy       *)
(* payloads are opaque tokens.                                             *)
(***************************************************************************)
JObject(fields) == [json |-> "object", fields |-> fields]
JString(text) == [json |-> "string", text |-> text]

\* The fields of a wire record; none for a record that is not an object.
Keys(w) == IF w.json = "object" THEN DOMAIN w.fields ELSE {}

\* #[serde(flatten)]: the fields of the flattened value join the struct's own.
Flatten(own, inner) ==
    [k \in (DOMAIN own) \cup (DOMAIN inner) |->
        IF k \in DOMAIN inner THEN inner[k] ELSE own[k]]

\* A number in decimal, padded with zeros on the left to the given width.
RECURSIVE Pad(_, _)
Pad(n, width) ==
    IF width <= 1 THEN DecString(n)
    ELSE IF Len(DecString(n)) >= width THEN DecString(n)
         ELSE Pad(n \div 10, width - 1) \o <<DecDigits[(n % 10) + 1]>>

\* The texts of a list, with one space between neighbours.
RECURSIVE JoinSpaces(_)
JoinSpaces(items) ==
    IF Len(items) = 0 THEN <<>>
    ELSE IF Len(items) = 1 THEN items[1]
         ELSE items[1] \o <<" ">> \o JoinSpaces(Tail(items))

\* The units a duration of whole seconds is written in, largest first: a year
\* of 365.25 days, a month of 30.44 days, a day, an hour, a minute, a second.
\* The first three take an "s" when their count is more than one.
DurationUnits ==
    <<[name |-> <<"y", "e", "a", "r">>, secs |-> 31557600, plural |-> TRUE],
      [name |-> <<"m", "o", "n", "t", "h">>, secs |-> 2630016, plural |-> TRUE],
      [name |-> <<"d", "a", "y">>, secs |-> 86400, plural |-> TRUE],
      [name |-> <<"h">>, secs |-> 3600, plural |-> FALSE],
      [name |-> <<"m">>, secs |-> 60, plural |-> FALSE],
      [name |-> <<"s">>, secs |-> 1, plural |-> FALSE]>>

\* One unit of a duration: nothing for a count of zero, else count and name.
DurationItem(n, name, plural) ==
    IF n = 0 THEN <<>>
    ELSE << DecString(n) \o name \o (IF plural /\ n > 1 THEN <<"s">> ELSE <<>>) >>

RECURSIVE FormatDuration(_, _)
FormatDuration(secs, k) ==
    IF k > Len(DurationUnits) THEN <<>>
    ELSE LET u == DurationUnits[k]
         IN  DurationItem(secs \div u.secs, u.name, u.plural)
                 \o FormatDuration(secs % u.secs, k + 1)

\* TimeDiff (a number of milliseconds): the text of its non-zero units, whole
\* seconds first and the milliseconds after, "0s" for no time at all.
Ser_TimeDiff(ms) ==
    LET items == FormatDuration(ms \div 1000, 1)
                     \o DurationItem(ms % 1000, <<"m", "s">>, FALSE)
    IN  IF Len(items) = 0 THEN <<"0", "s">> ELSE JoinSpaces(items)

\* The calendar date of a day counted from 1970-01-01, in the Gregorian
\* calendar: [year, month, day].
CivilFromDays(days) ==
    LET z == days + 719468
        era == z \div 146097
        doe == z - era * 146097
        yoe == (doe - (doe \div 1460) + (doe \div 36524) - (doe \div 146096)) \div 365
        doy == doe - (365 * yoe + (yoe \div 4) - (yoe \div 100))
        mp == (5 * doy + 2) \div 153
        month == IF mp < 10 THEN mp + 3 ELSE mp - 9
    IN  [year |-> yoe + era * 400 + (IF month <= 2 THEN 1 ELSE 0),
         month |-> month,
         day |-> doy - ((153 * mp + 2) \div 5) + 1]

\* Timestamp (milliseconds since the Unix epoch): RFC 3339 text in UTC with
\* three digits of milliseconds, as in 1970-01-02T00:01:01.001Z.
Ser_Timestamp(t) ==
    LET secs == t \div 1000
        date == CivilFromDays(secs \div 86400)
        inDay == secs % 86400
    IN  Pad(date.year, 4) \o <<"-">> \o Pad(date.month, 2) \o <<"-">>
            \o Pad(date.day, 2) \o <<"T">> \o Pad(inDay \div 3600, 2) \o <<":">>
            \o Pad((inDay % 3600) \div 60, 2) \o <<":">> \o Pad(inDay % 60, 2)
            \o <<".">> \o Pad(t % 1000, 3) \o <<"Z">>

\* ProtocolVersion: "major.minor.patch"; read back, each part is a u32 text.
Ser_ProtocolVersion(v) ==
    DecString(v[1]) \o <<".">> \o DecString(v[2]) \o <<".">> \o DecString(v[3])

\* The parts of a text between its dots.
RECURSIVE SplitDots(_)
SplitDots(chars) ==
    IF \A i \in 1..Len(chars) : chars[i] # "."
    THEN <<chars>>
    ELSE LET d == CHOOSE i \in 1..Len(chars) :
                      chars[i] = "." /\ \A j \in 1..(i - 1) : chars[j] # "."
         IN  <<SubSeq(chars, 1, d - 1)>> \o SplitDots(SubSeq(chars, d + 1, Len(chars)))

De_ProtocolVersion_ok(text) ==
    LET parts == SplitDots(text)
    IN  Len(parts) = 3 /\ \A i \in 1..3 : DecValid(parts[i])

De_ProtocolVersion(text) ==
    LET parts == SplitDots(text)
    IN  <<DecParse(parts[1]), DecParse(parts[2]), DecParse(parts[3])>>

Ser_Hashes(hs) == [i \in 1..Len(hs) |-> HexEncode(hs[i])]

\* A TransferAddr: "transfer-" and the lowercase hex of its bytes.
Ser_TransferAddr(a) ==
    <<"t", "r", "a", "n", "s", "f", "e", "r", "-">> \o HexEncode(a)

\* ExecutionEffect: its operations and its transforms, by name.  A key is
\* text already; the kind of an operation and a transform without content
\* are written as their names.
Ser_ExecutionEffect(x) ==
    [operations |-> [i \in 1..Len(x.operations) |->
                        [key |-> x.operations[i].key, kind |-> x.operations[i].kind]],
     transforms |-> [i \in 1..Len(x.transforms) |->
                        [key |-> x.transforms[i].key,
                         transform |-> x.transforms[i].transform]]]

\* ExecutionResult: an externally tagged enum, {"Success": {..}} or
\* {"Failure": {..}}, each with its effect, its transfers and its cost.
Ser_ExecutionResult(x) ==
    IF x.variant = "Success"
    THEN [Success |-> [effect |-> Ser_ExecutionEffect(x.effect),
                       transfers |-> [i \in 1..Len(x.transfers) |->
                                         Ser_TransferAddr(x.transfers[i])],
                       cost |-> DecString(x.cost)]]
    ELSE [Failure |-> [effect |-> Ser_ExecutionEffect(x.effect),
                       transfers |-> [i \in 1..Len(x.transfers) |->
                                         Ser_TransferAddr(x.transfers[i])],
                       cost |-> DecString(x.cost),
                       error_message |-> x.error_message]]

Ser_JsonBlock(b) ==
    [hash |-> HexEncode(b.hash),
     header |-> [height |-> b.header.height, era_id |-> b.header.era_id,
                 body_hash |-> b.header.body_hash],
     body |-> b.body, proofs |-> b.proofs]

\* Deploy: its five fields, by name.
Ser_Deploy(d) ==
    [hash |-> HexEncode(d.hash),
     header |-> [account |-> PublicKey_to_hex(d.header.account),
                 timestamp |-> Ser_Timestamp(d.header.timestamp),
                 ttl |-> Ser_TimeDiff(d.header.ttl),
                 dependencies |-> Ser_Hashes(d.header.dependencies),
                 body_hash |-> d.header.body_hash],
     payment |-> d.payment, session |-> d.session, approvals |-> d.approvals]

Ser_FinSig(x) ==
    [block_hash |-> HexEncode(x.block_hash), era_id |-> x.era_id,
     signature |-> HexEncode(x.signature),
     public_key |-> PublicKey_to_hex(x.public_key)]

(***************************************************************************)
(* #[derive(Serialize)] of each event struct: a struct is written as the   *)
(* object of its named fields, a newtype struct as its inner value.  No    *)
(* struct has a serde attribute that adds a field naming its type.         *)
(***************************************************************************)
\* A plausible slip: the version is written as the struct of its three numbers.
Ser_ApiVersion_AsStruct(e) ==
    JObject([major |-> e.version[1], minor |-> e.version[2], patch |-> e.version[3]])

\* A newtype struct: written as the protocol version itself.
Ser_ApiVersion(e) == JString(Ser_ProtocolVersion(e.version))

Ser_BlockAdded(e) ==
    JObject([block_hash |-> HexEncode(e.block_hash), block |-> Ser_JsonBlock(e.block)])

\* A plausible slip: the flatten attribute is lost and the deploy is nested.
Ser_DeployAccepted_Nested(e) == JObject([deploy |-> Ser_Deploy(e.deploy)])

\* The struct has no field of its own; its deploy is flattened into it.
Ser_DeployAccepted(e) == JObject(Flatten(<<>>, Ser_Deploy(e.deploy)))

Ser_DeployProcessed(e) ==
    JObject([deploy_hash |-> HexEncode(e.deploy_hash),
             account |-> PublicKey_to_hex(e.account),
             timestamp |-> Ser_Timestamp(e.timestamp),
             ttl |-> Ser_TimeDiff(e.ttl),
             dependencies |-> Ser_Hashes(e.dependencies),
             block_hash |-> HexEncode(e.block_hash),
             execution_result |-> Ser_ExecutionResult(e.execution_result)])

Ser_DeployExpired(e) == JObject([deploy_hash |-> HexEncode(e.deploy_hash)])

Ser_Fault(e) ==
    JObject([era_id |-> e.era_id, public_key |-> PublicKey_to_hex(e.public_key),
             timestamp |-> Ser_Timestamp(e.timestamp)])

Ser_FinalitySignature(e) == JObject(Ser_FinSig(e.sig))

Ser_Step(e) ==
    JObject([era_id |-> e.era_id,
             execution_effect |-> Ser_ExecutionEffect(e.execution_effect)])

Serialize(e) ==
    CASE e.type = "ApiVersion" -> Ser_ApiVersion(e)
      [] e.type = "BlockAdded" -> Ser_BlockAdded(e)
      [] e.type = "DeployAccepted" -> Ser_DeployAccepted(e)
      [] e.type = "DeployProcessed" -> Ser_DeployProcessed(e)
      [] e.type = "DeployExpired" -> Ser_DeployExpired(e)
      [] e.type = "Fault" -> Ser_Fault(e)
      [] e.type = "FinalitySignature" -> Ser_FinalitySignature(e)
      [] e.type = "Step" -> Ser_Step(e)

(***************************************************************************)
(* #[derive(Deserialize)] of the newtype struct ApiVersion: the wire value *)
(* is read as the protocol version itself.  The result is [ok |-> FALSE]   *)
(* or [ok |-> TRUE, event |-> e].                                          *)
(***************************************************************************)
Failed == [ok |-> FALSE]
Decoded(e) == [ok |-> TRUE, event |-> e]

De_ApiVersion(w) ==
    IF w.json = "string" /\ De_ProtocolVersion_ok(w.text)
    THEN Decoded(ApiVersion_new(De_ProtocolVersion(w.text)))
    ELSE Failed

EventTypes ==
    {"ApiVersion", "BlockAdded", "DeployAccepted", "DeployProcessed",
     "DeployExpired", "Fault", "FinalitySignature", "Step"}

(***************************************************************************)
(* The state.                                                              *)
(*   rng        the seeded test generator handed to the random constructors*)
(*   ev         the event under construction and use                       *)
(*   call       the constructor call that made ev: its name, its inputs,   *)
(*              the generator's state at entry, and the event as returned  *)
(*   results    per accessor, the values its first and its latest call on  *)
(*              ev returned                                                *)
(*   wire       the last encoding of ev                                    *)
(*   heap, held, emitted, subPc, subPart, subWire                          *)
(*              the shared deploy record of one DeployAccepted event, the  *)
(*              handles the emitter (holder 0) and the subscribers hold,   *)
(*              and each subscriber's progress through its encoding        *)
(*   stream     the records delivered so far to one connected subscriber   *)
(***************************************************************************)
VARIABLES rng, ev, call, results, wire,
          heap, held, emitted, subPc, subPart, subWire, stream

eventVars == <<rng, ev, call, results, wire>>
shareVars == <<heap, held, emitted, subPc, subPart, subWire>>
vars == <<rng, ev, call, results, wire,
          heap, held, emitted, subPc, subPart, subWire, stream>>

AccessorNames ==
    {"BlockAdded::hex_encoded_hash", "BlockAdded::get_height",
     "DeployAccepted::deploy_hash", "DeployAccepted::hex_encoded_hash",
     "DeployProcessed::hex_encoded_hash", "DeployExpired::hex_encoded_hash",
     "Fault::fmt", "FinalitySignature::inner",
     "FinalitySignature::hex_encoded_block_hash",
     "FinalitySignature::hex_encoded_public_key", "clone"}

NoCall == [op |-> "none", made |-> NoEvent]
NotCalled == [called |-> FALSE]
NoWire == [json |-> "none"]

(***************************************************************************)
(* Inputs of the constructors.                                             *)
(***************************************************************************)
\* The first hash is 0x01 followed by zero bytes.
ExplicitHashes ==
    {<<1>> \o Fill(DigestLength - 1, 0),
     [i \in 1..DigestLength |-> (i * 37 + 171) % 256]}

KeyPool == {SystemKey, Ed25519Key(3), Secp256k1Key(4)}

Heights == {0, 42, 70000}

Versions == {<<1, 0, 0>>, <<1, 4, 15>>, <<20, 0, 301>>}

\* Texts handed to random_with_hash: the hex of a digest, a text that is not
\* hex, and the hex of too few bytes.
HashTexts ==
    {HexEncode(h) : h \in ExplicitHashes} \cup {<<"z", "z">>, <<"0", "1">>}

DependencyLists ==
    {<<>>, <<DependencyHash(1), DependencyHash(1), DependencyHash(2)>>}

Seeds == 0..(RngStates - 1)

(***************************************************************************)
(* Construction.  Every constructor returns a new event; what was known of *)
(* the event before it (accessor results, encoding) is dropped.            *)
(***************************************************************************)
Construct(event, callRecord, rngAfter) ==
    /\ ev' = event
    /\ call' = callRecord
    /\ rng' = rngAfter
    /\ results' = [fn \in AccessorNames |-> NotCalled]
    /\ wire' = NoWire
    /\ UNCHANGED <<shareVars, stream>>

NewApiVersion ==
    \E v \in Versions :
        LET e == ApiVersion_new(v)
        IN  Construct(e, [op |-> "ApiVersion::new", made |-> e], rng)

NewBlockAdded ==
    \E h \in ExplicitHashes, r \in Seeds :
        LET e == BlockAdded_new(h, JsonBlock_new(Block_random(r)))
        IN  Construct(e, [op |-> "BlockAdded::new", made |-> e], rng)

RandomBlockAdded ==
    LET res == BlockAdded_random(rng)
    IN  Construct(res.event,
                  [op |-> "BlockAdded::random", rng0 |-> rng, made |-> res.event],
                  res.rng)

RandomBlockAddedWithHeight ==
    \E height \in Heights, lib \in SetHeightOutcomes :
        LET res == BlockAdded_random_with_height(rng, height, lib)
        IN  Construct(res.event,
                      [op |-> "BlockAdded::random_with_height", rng0 |-> rng,
                       height |-> height, lib |-> lib, made |-> res.event],
                      res.rng)

\* A text that is not the hex of a digest panics: no event is returned.
RandomBlockAddedWithHash ==
    \E text \in HashTexts :
        LET res == BlockAdded_random_with_hash(rng, text)
        IN  Construct(res.event,
                      [op |-> "BlockAdded::random_with_hash", rng0 |-> rng,
                       text |-> text, panic |-> res.panic, made |-> res.event],
                      res.rng)

NewDeployAccepted ==
    \E r \in Seeds :
        LET e == DeployAccepted_new(Deploy_random(r))
        IN  Construct(e, [op |-> "DeployAccepted::new", made |-> e], rng)

RandomDeployAccepted ==
    LET res == DeployAccepted_random(rng)
    IN  Construct(res.event,
                  [op |-> "DeployAccepted::random", rng0 |-> rng, made |-> res.event],
                  res.rng)

NewDeployProcessed ==
    \E r \in Seeds, deps \in DependencyLists, ttl \in {0, 1000, 183845006} :
        \E h \in {BlockHash_random(r + 1)} :
        LET d == Deploy_random(r)
            e == DeployProcessed_new(h, d.header.account, d.header.timestamp, ttl,
                                     deps, BlockHash_random(r),
                                     ExecutionResult_random(r))
        IN  Construct(e, [op |-> "DeployProcessed::new", made |-> e], rng)

RandomDeployProcessed ==
    \E with \in {None} \cup {Some(h) : h \in ExplicitHashes} :
        LET res == DeployProcessed_random(rng, with)
        IN  Construct(res.event,
                      [op |-> "DeployProcessed::random", rng0 |-> rng,
                       with |-> with, made |-> res.event],
                      res.rng)

NewDeployExpired ==
    \E h \in ExplicitHashes :
        LET e == DeployExpired_new(h)
        IN  Construct(e, [op |-> "DeployExpired::new", made |-> e], rng)

RandomDeployExpired ==
    \E with \in {None} \cup {Some(h) : h \in ExplicitHashes} :
        LET res == DeployExpired_random(rng, with)
        IN  Construct(res.event,
                      [op |-> "DeployExpired::random", rng0 |-> rng,
                       with |-> with, made |-> res.event],
                      res.rng)

NewFault ==
    \E era \in {7}, key \in KeyPool, ts \in {0, 2000000123} :
        LET e == Fault_new(era, key, ts)
        IN  Construct(e, [op |-> "Fault::new", made |-> e], rng)

RandomFault ==
    LET res == Fault_random(rng)
    IN  Construct(res.event,
                  [op |-> "Fault::random", rng0 |-> rng, made |-> res.event],
                  res.rng)

NewFinalitySignature ==
    \E h \in ExplicitHashes, key \in KeyPool \ {SystemKey} :
        LET e == FinalitySignature_new(FinSig_random_for_block(h, 7, key))
        IN  Construct(e, [op |-> "FinalitySignature::new", made |-> e], rng)

\* The key pair comes from the operating system's entropy, not from rng.
RandomFinalitySignature ==
    \E n \in {1, 2} :
        LET res == FinalitySignature_random(rng, Ed25519Key(n))
        IN  Construct(res.event,
                      [op |-> "FinalitySignature::random", rng0 |-> rng,
                       made |-> res.event],
                      res.rng)

NewStep ==
    \E era \in {0, 7}, effect \in {ExecutionEffect_random(1)} :
        LET e == Step_new(era, effect)
        IN  Construct(e, [op |-> "Step::new", made |-> e], rng)

RandomStep ==
    LET res == Step_random(rng)
    IN  Construct(res.event,
                  [op |-> "Step::random", rng0 |-> rng, made |-> res.event],
                  res.rng)

(***************************************************************************)
(* Use of the event: accessor calls, clones and encoding.                  *)
(***************************************************************************)
Call(fn, type, result) ==
    /\ ev.type = type
    /\ ev' = result.self
    /\ results' = [results EXCEPT ![fn] =
                      [called |-> TRUE,
                       first |-> IF results[fn].called THEN results[fn].first
                                 ELSE result.ret,
                       last |-> result.ret]]
    /\ UNCHANGED <<rng, call, wire, shareVars, stream>>

CallBlockAddedHexEncodedHash ==
    Call("BlockAdded::hex_encoded_hash", "BlockAdded", BlockAdded_hex_encoded_hash(ev))

CallBlockAddedGetHeight ==
    Call("BlockAdded::get_height", "BlockAdded", BlockAdded_get_height(ev))

CallDeployAcceptedDeployHash ==
    Call("DeployAccepted::deploy_hash", "DeployAccepted", DeployAccepted_deploy_hash(ev))

CallDeployAcceptedHexEncodedHash ==
    Call("DeployAccepted::hex_encoded_hash", "DeployAccepted",
         DeployAccepted_hex_encoded_hash(ev))

CallDeployProcessedHexEncodedHash ==
    Call("DeployProcessed::hex_encoded_hash", "DeployProcessed",
         DeployProcessed_hex_encoded_hash(ev))

CallDeployExpiredHexEncodedHash ==
    Call("DeployExpired::hex_encoded_hash", "DeployExpired",
         DeployExpired_hex_encoded_hash(ev))

CallFaultFmt ==
    Call("Fault::fmt", "Fault", Fault_fmt(ev))

CallFinalitySignatureInner ==
    Call("FinalitySignature::inner", "FinalitySignature", FinalitySignature_inner(ev))

CallFinalitySignatureHexEncodedBlockHash ==
    Call("FinalitySignature::hex_encoded_block_hash", "FinalitySignature",
         FinalitySignature_hex_encoded_block_hash(ev))

CallFinalitySignatureHexEncodedPublicKey ==
    Call("FinalitySignature::hex_encoded_public_key", "FinalitySignature",
         FinalitySignature_hex_encoded_public_key(ev))

CallClone ==
    /\ ev.type \in EventTypes
    /\ Call("clone", ev.type, Event_clone(ev))

\* serde_json::to_string(&ev).
Encode ==
    /\ ev.type \in EventTypes
    /\ wire' = Serialize(ev)
    /\ UNCHANGED <<rng, ev, call, results, shareVars, stream>>

EventNext ==
    \/ NewApiVersion
    \/ NewBlockAdded
    \/ RandomBlockAdded
    \/ RandomBlockAddedWithHeight
    \/ RandomBlockAddedWithHash
    \/ NewDeployAccepted
    \/ RandomDeployAccepted
    \/ NewDeployProcessed
    \/ RandomDeployProcessed
    \/ NewDeployExpired
    \/ RandomDeployExpired
    \/ NewFault
    \/ RandomFault
    \/ NewFinalitySignature
    \/ RandomFinalitySignature
    \/ NewStep
    \/ RandomStep
    \/ CallBlockAddedHexEncodedHash
    \/ CallBlockAddedGetHeight
    \/ CallDeployAcceptedDeployHash
    \/ CallDeployAcceptedHexEncodedHash
    \/ CallDeployProcessedHexEncodedHash
    \/ CallDeployExpiredHexEncodedHash
    \/ CallFaultFmt
    \/ CallFinalitySignatureInner
    \/ CallFinalitySignatureHexEncodedBlockHash
    \/ CallFinalitySignatureHexEncodedPublicKey
    \/ CallClone
    \/ Encode

(***************************************************************************)
(* The initial state: a seeded generator, no event, nothing shared and no  *)
(* subscription.                                                           *)
(***************************************************************************)
Free == [allocated |-> FALSE]
Addresses == 1..(MaxSubscribers + 1)
Subscribers == 1..MaxSubscribers
Holders == 0..MaxSubscribers
NoPart == [read |-> FALSE]

Init ==
    /\ rng \in Seeds
    /\ ev = NoEvent
    /\ call = NoCall
    /\ results = [fn \in AccessorNames |-> NotCalled]
    /\ wire = NoWire
    /\ heap = [a \in Addresses |-> Free]
    /\ held = [h \in Holders |-> NoEvent]
    /\ emitted = NoEvent
    /\ subPc = [s \in Subscribers |-> "waiting"]
    /\ subPart = [s \in Subscribers |-> NoPart]
    /\ subWire = [s \in Subscribers |-> NoWire]
    /\ stream = <<>>

Next == EventNext

Spec == Init /\ [][Next]_vars

(***************************************************************************)
(* Sharing of one DeployAccepted event.  The event's only field is an      *)
(* Arc<Deploy>: a pointer to a heap cell that holds the deploy and the     *)
(* number of handles to it.  The derived Clone of the event clones the     *)
(* Arc, which adds one to the count and copies the pointer; dropping a     *)
(* handle takes one off and frees the cell at zero.  Through an Arc the    *)
(* deploy can only be read.                                                *)
(***************************************************************************)
\* Arc::new: the deploy is moved into a fresh cell with one handle.
Arc_new(h, deploy) ==
    LET a == CHOOSE x \in Addresses :
                 ~h[x].allocated /\ \A y \in 1..(x - 1) : h[y].allocated
    IN  [heap |-> [h EXCEPT ![a] = [allocated |-> TRUE, strong |-> 1,
                                     value |-> deploy]],
         arc |-> a]

\* Arc::clone: one more handle to the same cell.
Arc_clone(h, a) ==
    [heap |-> [h EXCEPT ![a].strong = @ + 1], arc |-> a]

\* Drop of an Arc: one handle fewer; the last one frees the cell.
Arc_drop(h, a) ==
    IF h[a].strong = 1 THEN [h EXCEPT ![a] = Free]
    ELSE [h EXCEPT ![a].strong = @ - 1]

\* Deref of an Arc: the deploy in the cell.
Arc_deref(h, a) == h[a].value

\* An event whose deploy field is the given Arc.
SharedDeployAccepted(a) == [type |-> "DeployAccepted", deploy |-> [arc |-> a]]

\* The event as its holder reads it.
Resolve(h, e) == DeployAccepted_new(Arc_deref(h, e.deploy.arc))

\* A plausible slip: the deploy is held by value (or cloned deeply), so every
\* clone of the event gets a cell of its own.
DeployAccepted_clone_Deep(h, e) ==
    LET res == Arc_new(h, Arc_deref(h, e.deploy.arc))
    IN  [heap |-> res.heap, event |-> SharedDeployAccepted(res.arc)]

\* #[derive(Clone)] of DeployAccepted: clones the Arc.
DeployAccepted_clone(h, e) ==
    LET res == Arc_clone(h, e.deploy.arc)
    IN  [heap |-> res.heap, event |-> SharedDeployAccepted(res.arc)]

\* The part of a record with the given field names.
Restrict(f, names) == [k \in names |-> f[k]]

\* The fields of a deploy, in the order the encoder visits them, in two parts.
DeployHeadFields == {"hash", "header"}
DeployTailFields == {"payment", "session", "approvals"}

\* The emitter wraps a deploy into an event: Arc::new, DeployAccepted::new.
Emit ==
    \E r \in Seeds :
        /\ emitted = NoEvent
        /\ LET deploy == Deploy_random(r)
               res == Arc_new(heap, deploy)
           IN  /\ heap' = res.heap
               /\ held' = [held EXCEPT ![0] = SharedDeployAccepted(res.arc)]
               /\ emitted' = DeployAccepted_new(deploy)
        /\ UNCHANGED <<eventVars, subPc, subPart, subWire, stream>>

\* A subscriber gets its clone of the event from any current holder.
SubscriberClone ==
    \E s \in Subscribers, g \in Holders :
        /\ subPc[s] = "waiting"
        /\ held[g] # NoEvent
        /\ LET res == DeployAccepted_clone(heap, held[g])
           IN  /\ heap' = res.heap
               /\ held' = [held EXCEPT ![s] = res.event]
        /\ subPc' = [subPc EXCEPT ![s] = "holding"]
        /\ UNCHANGED <<eventVars, emitted, subPart, subWire, stream>>

\* A subscriber's encoder reads the first fields of the deploy.
SubscriberSerializeHead ==
    \E s \in Subscribers :
        /\ subPc[s] = "holding"
        /\ subPart' = [subPart EXCEPT ![s] =
                          [read |-> TRUE,
                           fields |-> Restrict(Ser_Deploy(Resolve(heap, held[s]).deploy),
                                               DeployHeadFields)]]
        /\ subPc' = [subPc EXCEPT ![s] = "reading"]
        /\ UNCHANGED <<eventVars, heap, held, emitted, subWire, stream>>

\* A subscriber's encoder reads the remaining fields and closes the record.
SubscriberSerializeTail ==
    \E s \in Subscribers :
        /\ subPc[s] = "reading"
        /\ subWire' = [subWire EXCEPT ![s] =
                          JObject(Flatten(subPart[s].fields,
                                          Restrict(Ser_Deploy(Resolve(heap, held[s]).deploy),
                                                   DeployTailFields)))]
        /\ subPart' = [subPart EXCEPT ![s] = NoPart]
        /\ subPc' = [subPc EXCEPT ![s] = "encoded"]
        /\ UNCHANGED <<eventVars, heap, held, emitted, stream>>

\* A subscriber drops its clone, encoded or not.
SubscriberDrop ==
    \E s \in Subscribers :
        /\ subPc[s] \in {"holding", "encoded"}
        /\ heap' = Arc_drop(heap, held[s].deploy.arc)
        /\ held' = [held EXCEPT ![s] = NoEvent]
        /\ subPc' = [subPc EXCEPT ![s] = "done"]
        /\ UNCHANGED <<eventVars, emitted, subPart, subWire, stream>>

\* The emitter drops its event, before or after the subscribers do.
EmitterDrop ==
    /\ held[0] # NoEvent
    /\ heap' = Arc_drop(heap, held[0].deploy.arc)
    /\ held' = [held EXCEPT ![0] = NoEvent]
    /\ UNCHANGED <<eventVars, emitted, subPc, subPart, subWire, stream>>

ShareNext ==
    \/ Emit
    \/ SubscriberClone
    \/ SubscriberSerializeHead
    \/ SubscriberSerializeTail
    \/ SubscriberDrop
    \/ EmitterDrop

ShareSpec == Init /\ [][ShareNext]_vars

(***************************************************************************)
(* One subscription stream.  The server that opens subscriptions and       *)
(* delivers events is not part of this file; it is modelled from the       *)
(* documentation of ApiVersion: the version is sent first to a new client, *)
(* and what follows are the node's events.                                 *)
(***************************************************************************)
\* One event of every type the node reports after the handshake.
DomainEvents ==
    {BlockAdded_random(0).event, DeployAccepted_random(1).event,
     DeployProcessed_random(2, None).event, DeployExpired_random(0, None).event,
     Fault_random(1).event, FinalitySignature_random(2, Ed25519Key(1)).event,
     Step_random(0).event}

\* A client connects: the stream opens with the API version.
Subscribe ==
    \E v \in Versions :
        /\ stream = <<>>
        /\ stream' = <<Serialize(ApiVersion_new(v))>>
        /\ UNCHANGED <<eventVars, shareVars>>

\* The server delivers the next event of the node.
Deliver ==
    \E e \in DomainEvents :
        /\ Len(stream) >= 1
        /\ Len(stream) < MaxStream
        /\ stream' = Append(stream, Serialize(e))
        /\ UNCHANGED <<eventVars, shareVars>>

\* The client disconnects; a later subscription starts a new stream.
Unsubscribe ==
    /\ stream # <<>>
    /\ stream' = <<>>
    /\ UNCHANGED <<eventVars, shareVars>>

StreamNext ==
    \/ Subscribe
    \/ Deliver
    \/ Unsubscribe

StreamSpec == Init /\ [][StreamNext]_vars

(***************************************************************************)
(* Properties.                                                             *)
(***************************************************************************)
\* Whether text is the lowercase hexadecimal form of bytes: two lowercase
\* digits per byte, in order, that read back as the byte.
IsLowerHexOf(text, bytes) ==
    /\ Len(text) = 2 * Len(bytes)
    /\ \A i \in 1..Len(text) : \E k \in 1..16 : HexDigits[k] = text[i]
    /\ \A i \in 1..Len(bytes) :
           16 * HexVal(text[2 * i - 1]) + HexVal(text[2 * i]) = bytes[i]

\* Whether accessor fn has been called on ev.
Called(fn) == results[fn].called

\* C1: in a subscription stream the first record decodes as ApiVersion and no
\* later record does.
C1_SentinelFirstOnly ==
    stream # <<>> =>
        /\ De_ApiVersion(stream[1]).ok
        /\ \A i \in 2..Len(stream) : ~De_ApiVersion(stream[i]).ok

C1_Witness ==
    /\ Len(stream) = 3
    /\ De_ApiVersion(stream[1]).ok
    /\ "execution_result" \in Keys(stream[2])
    /\ "execution_effect" \in Keys(stream[3])

\* The field names a tagged encoding could carry its discriminator under.
TagKeys == {"type", "variant", "kind", "event", "tag"}

\* Whether the wire record names the variant: as the single outer key, or as the
\* value of a tag field.
Discriminated(w, type) ==
    /\ w.json = "object"
    /\ \/ DOMAIN w.fields = {type}
       \/ \E k \in TagKeys \cap DOMAIN w.fields : w.fields[k] = type

\* C2: the encoding of every event carries a discriminator that names its
\* variant.  The derived encoders write the fields of the struct and nothing
\* else, so the encoding of any event refutes it: DeployExpired::new of the
\* hash 0x01 00..00 is written as the object of its one field deploy_hash.
C2_AlwaysDiscriminated ==
    wire # NoWire => Discriminated(wire, ev.type)

\* C4: the encoding of a DeployAccepted event has exactly the fields of the
\* deploy's own encoding, each with the deploy's value, and no wrapper key.
C4_Flattened ==
    (ev.type = "DeployAccepted" /\ wire # NoWire) =>
        /\ wire.json = "object"
        /\ DOMAIN wire.fields = {"hash", "header", "payment", "session", "approvals"}
        /\ DOMAIN wire.fields = DOMAIN Ser_Deploy(ev.deploy)
        /\ \A k \in DOMAIN wire.fields : wire.fields[k] = Ser_Deploy(ev.deploy)[k]
        /\ "deploy" \notin DOMAIN wire.fields

C4_Witness ==
    /\ ev.type = "DeployAccepted"
    /\ wire # NoWire
    /\ Len(ev.deploy.header.dependencies) = 2

\* C5: every hex accessor returns the lowercase hex, byte by byte, of the hash or
\* key it reads (a key's bytes being its tag byte and its raw bytes), twice as
\* long as those bytes; the hash 0x01 00..00 gives "01" followed by "00"s.
C5_HexAccessors ==
    /\ Called("BlockAdded::hex_encoded_hash") =>
           IsLowerHexOf(results["BlockAdded::hex_encoded_hash"].last, ev.block_hash)
    /\ Called("DeployAccepted::hex_encoded_hash") =>
           IsLowerHexOf(results["DeployAccepted::hex_encoded_hash"].last,
                        ev.deploy.hash)
    /\ Called("DeployProcessed::hex_encoded_hash") =>
           IsLowerHexOf(results["DeployProcessed::hex_encoded_hash"].last,
                        ev.deploy_hash)
    /\ Called("DeployExpired::hex_encoded_hash") =>
           /\ IsLowerHexOf(results["DeployExpired::hex_encoded_hash"].last,
                           ev.deploy_hash)
           /\ Len(results["DeployExpired::hex_encoded_hash"].last) = 2 * DigestLength
           /\ ev.deploy_hash = <<1>> \o Fill(DigestLength - 1, 0) =>
                  results["DeployExpired::hex_encoded_hash"].last
                      = <<"0", "1">> \o [i \in 1..(2 * DigestLength - 2) |-> "0"]
    /\ Called("FinalitySignature::hex_encoded_block_hash") =>
           IsLowerHexOf(results["FinalitySignature::hex_encoded_block_hash"].last,
                        ev.sig.block_hash)
    /\ Called("FinalitySignature::hex_encoded_public_key") =>
           IsLowerHexOf(results["FinalitySignature::hex_encoded_public_key"].last,
                        <<ev.sig.public_key.tag>> \o ev.sig.public_key.raw)

C5_Witness ==
    /\ ev.type = "DeployExpired"
    /\ ev.deploy_hash = <<1>> \o Fill(DigestLength - 1, 0)
    /\ Called("DeployExpired::hex_encoded_hash")

\* C6: accessor calls, clones and encodings leave every field of the event as
\* the constructor returned it, and an accessor's latest result equals its first.
C6_Immutable ==
    /\ ev = call.made
    /\ \A fn \in AccessorNames :
           Called(fn) => results[fn].last = results[fn].first

C6_Witness ==
    /\ ev.type = "FinalitySignature"
    /\ Called("FinalitySignature::inner")
    /\ Called("FinalitySignature::hex_encoded_block_hash")
    /\ Called("FinalitySignature::hex_encoded_public_key")
    /\ Called("clone")
    /\ wire # NoWire

\* C7: get_height of an event built by random_with_height(rng, h) returns h,
\* for every generator state.
C7_HeightAsRequested ==
    (call.op = "BlockAdded::random_with_height" /\ Called("BlockAdded::get_height")) =>
        results["BlockAdded::get_height"].last = call.height

C7_Witness ==
    /\ call.op = "BlockAdded::random_with_height"
    /\ call.height = 42
    /\ Called("BlockAdded::get_height")
    /\ results["BlockAdded::get_height"].last = 42

\* C8: DeployProcessed::random and DeployExpired::random give the event the
\* requested hash, or else the id of the deploy they generate, from which
\* DeployProcessed also takes account, timestamp, ttl and dependencies.
C8_DeployHashChoice ==
    /\ call.op \in {"DeployProcessed::random", "DeployExpired::random"} =>
           LET deploy == Deploy_random(call.rng0)
               expected == IF call.with.some THEN call.with.hash ELSE deploy.hash
           IN  /\ ev.deploy_hash = expected
               /\ call.op = "DeployProcessed::random" =>
                      /\ ev.account = deploy.header.account
                      /\ ev.timestamp = deploy.header.timestamp
                      /\ ev.ttl = deploy.header.ttl
                      /\ ev.dependencies = deploy.header.dependencies
                      /\ Called("DeployProcessed::hex_encoded_hash") =>
                             IsLowerHexOf(
                                 results["DeployProcessed::hex_encoded_hash"].last,
                                 expected)
               /\ (call.op = "DeployExpired::random"
                      /\ Called("DeployExpired::hex_encoded_hash")) =>
                      IsLowerHexOf(results["DeployExpired::hex_encoded_hash"].last,
                                   expected)

C8_Witness ==
    /\ call.op = "DeployProcessed::random"
    /\ call.with.some
    /\ call.with.hash # Deploy_random(call.rng0).hash
    /\ Called("DeployProcessed::hex_encoded_hash")

\* C9: however the subscribers' clones, encodings and drops interleave, there is
\* one deploy cell, it holds the deploy as emitted, every handle points to it,
\* its count is the number of handles, and every finished encoding equals the
\* encoding of the emitted event.
C9_SharedDeploy ==
    LET live == {a \in Addresses : heap[a].allocated}
        holders == {h \in Holders : held[h] # NoEvent}
    IN  /\ Cardinality(live) <= 1
        /\ \A h \in holders :
               /\ heap[held[h].deploy.arc].allocated
               /\ Resolve(heap, held[h]) = emitted
        /\ \A a \in live :
               heap[a].strong
                   = Cardinality({h \in holders : held[h].deploy.arc = a})
        /\ holders = {} => live = {}
        /\ \A s \in Subscribers :
               subWire[s] # NoWire => subWire[s] = Serialize(emitted)

C9_Witness ==
    \E s1, s2 \in Subscribers :
        /\ s1 # s2
        /\ held[0] = NoEvent
        /\ subPc[s1] = "done"
        /\ subWire[s1] # NoWire
        /\ subPc[s2] = "reading"

=============================================================================
